---- MODULE Spec2Model ----
(***************************************************************************)
(* generate_pwa_config.py: a command-line generator that writes a fixed    *)
(* set of text templates (manifest, service worker, registration, offline  *)
(* page, online-status hook) under an output directory.                    *)
(*                                                                         *)
(* Text is modelled in the shape Python's str.split("\n") gives it: a      *)
(* non-empty sequence of lines, the text being the lines joined by "\n".   *)
(* A line is a sequence of chunks.  A chunk is one whitespace character    *)
(* (" " or "\t"), one character of the project name, or one fragment of    *)
(* template text that starts with a non-whitespace character and holds no  *)
(* line break.  Two texts are byte-identical iff their models are equal.   *)
(***************************************************************************)
EXTENDS Integers, Sequences, FiniteSets, TLC

VARIABLES
  pc,         \* position of the process in main(): "idle", a generate_* call, "summary", "exit"
  args,       \* the parsed argparse namespace of the current run
  exit_code,  \* -1 while running, else the process exit status
  disk,       \* files under the output directory: path -> text
  dirs,       \* directories that exist, the output directory being <<>>
  created,    \* paths printed as "Created ..." by write_file in this run, in order
  failure,    \* <<>> or <<path, kind>>: the write_file call that raised
  runs,       \* number of invocations so far
  history,    \* requests of the runs that exited 0, oldest first
  startDisk,  \* disk when the current run started
  startDirs   \* dirs when the current run started

vars == <<pc, args, exit_code, disk, dirs, created, failure, runs, history, startDisk, startDirs>>

-----------------------------------------------------------------------------
(* Bounds of the exploration *)

\* invocations of the tool in one behaviour
MaxRuns == 2
\* a write that fails midway leaves at most this many complete lines
MaxCut == 1
\* length of the enumerated project names
MaxNameLen == 3

-----------------------------------------------------------------------------
(* Text *)

Min(a, b) == IF a < b THEN a ELSE b

Whitespace == {" ", "\t"}

\* n spaces of indentation
Sp(n) == [i \in 1..n |-> " "]

\* a template line: n spaces, then its text
Ln(n, txt) == Sp(n) \o <<txt>>

\* the characters of a Python string, as text: split at every "\n"
RECURSIVE Lines(_)
Lines(s) ==
  IF \A i \in 1..Len(s) : s[i] # "\n"
  THEN <<s>>
  ELSE LET k == CHOOSE i \in 1..Len(s) : s[i] = "\n" /\ \A j \in 1..(i-1) : s[j] # "\n"
       IN  <<SubSeq(s, 1, k-1)>> \o Lines(SubSeq(s, k+1, Len(s)))

\* string concatenation: the last line of A continues with the first line of B
Cat(A, B) ==
  SubSeq(A, 1, Len(A)-1) \o <<A[Len(A)] \o B[1]>> \o SubSeq(B, 2, Len(B))

\* the pieces of an f-string, concatenated
RECURSIVE Concat(_)
Concat(parts) ==
  IF Len(parts) = 1 THEN parts[1] ELSE Cat(parts[1], Concat(Tail(parts)))

\* the characters of a text: its lines joined by "\n"
RECURSIVE Flat(_)
Flat(T) ==
  IF Len(T) = 1 THEN T[1] ELSE T[1] \o <<"\n">> \o Flat(Tail(T))

\* the empty string
EmptyText == << <<>> >>

IsBlank(line) == \A i \in 1..Len(line) : line[i] \in Whitespace

\* length of the leading run of spaces and tabs
Indent(line) ==
  IF IsBlank(line) THEN Len(line)
  ELSE (CHOOSE i \in 1..Len(line) :
          line[i] \notin Whitespace /\ \A j \in 1..(i-1) : line[j] \in Whitespace) - 1

\* length of the longest leading whitespace common to all lines that hold
\* a non-whitespace character
Margin(T) ==
  LET nb == {i \in 1..Len(T) : ~IsBlank(T[i])}
  IN  IF nb = {} THEN 0
      ELSE LET r   == CHOOSE i \in nb : TRUE
               ind == [i \in nb |-> Indent(T[i])]
               lo  == CHOOSE n \in {ind[i] : i \in nb} : \A i \in nb : n <= ind[i]
               common(k) == \A i \in nb : \A j \in 1..k : T[i][j] = T[r][j]
           IN  CHOOSE k \in 0..lo : common(k) /\ (k = lo \/ ~common(k+1))

\* textwrap.dedent: whitespace-only lines become empty, and the common
\* margin is removed from every other line
dedent(text) ==
  LET m == Margin(text)
  IN  [i \in 1..Len(text) |->
         IF IsBlank(text[i]) THEN <<>> ELSE SubSeq(text[i], m+1, Len(text[i]))]

-----------------------------------------------------------------------------
(* Templates *)

\* the character U+0060, which a TLA+ string cannot hold
Backtick == "[U+0060]"

\* program constant: project_name[:12]
ShortNameLen == 12

short_name(project_name) == SubSeq(project_name, 1, Min(ShortNameLen, Len(project_name)))

\* The f-string literal of source lines 26-50, before dedent.
manifest_template(project_name) ==
  Concat(<<
    << Ln(8, "import type { MetadataRoute } from \"next\";"),
       <<>>,
       Ln(8, "export default function manifest(): MetadataRoute.Manifest {"),
       Ln(10, "return {"),
       Ln(12, "name: \"") >>,
    Lines(project_name),
    << <<"\",">>,
       Ln(12, "short_name: \"") >>,
    Lines(short_name(project_name)),
    << <<"\",">>,
       Ln(12, "description: \"A Progressive Web App built with Next.js\","),
       Ln(12, "start_url: \"/\","),
       Ln(12, "display: \"standalone\","),
       Ln(12, "background_color: \"#ffffff\","),
       Ln(12, "theme_color: \"#000000\","),
       Ln(12, "icons: ["),
       Ln(14, "{ src: \"/icons/icon-192.png\", sizes: \"192x192\", type: \"image/png\" },"),
       Ln(14, "{ src: \"/icons/icon-512.png\", sizes: \"512x512\", type: \"image/png\" },"),
       Ln(14, "{"),
       Ln(16, "src: \"/icons/icon-maskable-512.png\","),
       Ln(16, "sizes: \"512x512\","),
       Ln(16, "type: \"image/png\","),
       Ln(16, "purpose: \"maskable\","),
       Ln(14, "},"),
       Ln(12, "],"),
       Ln(10, "};"),
       Ln(8, "}"),
       Sp(4) >> >>)

\* The string literal of source lines 55-65, before dedent.
offline_page_template ==
  << Ln(8, "export default function OfflinePage() {"),
     Ln(10, "return ("),
     Ln(12, "<main style={{ textAlign: \"center\", padding: \"4rem 1rem\" }}>"),
     Ln(14, "<h1>You are offline</h1>"),
     Ln(14, "<p>Check your internet connection and try again.</p>"),
     Ln(14, "<button onClick={() => window.location.reload()}>Retry</button>"),
     Ln(12, "</main>"),
     Ln(10, ");"),
     Ln(8, "}"),
     Sp(4) >>

\* The string literal of source lines 72-108, before dedent.
serwist_push_handlers_template ==
  << <<>>,
     <<>>,
     Ln(8, "// Handle push notifications"),
     Ln(8, "self.addEventListener(\"push\", (event) => {"),
     Ln(10, "const data = event.data?.json() ?? {"),
     Ln(12, "title: \"Notification\","),
     Ln(12, "body: \"You have a new notification\","),
     Ln(10, "};"),
     <<>>,
     Ln(10, "event.waitUntil("),
     Ln(12, "self.registration.showNotification(data.title, {"),
     Ln(14, "body: data.body,"),
     Ln(14, "icon: \"/icons/icon-192.png\","),
     Ln(14, "badge: \"/icons/icon-72.png\","),
     Ln(14, "tag: data.tag ?? \"default\","),
     Ln(14, "data: data.data,"),
     Ln(12, "})"),
     Ln(10, ");"),
     Ln(8, "});"),
     <<>>,
     Ln(8, "// Handle notification clicks"),
     Ln(8, "self.addEventListener(\"notificationclick\", (event) => {"),
     Ln(10, "event.notification.close();"),
     Ln(10, "const targetUrl = event.notification.data?.url ?? \"/\";"),
     <<>>,
     Ln(10, "event.waitUntil("),
     Ln(12, "self.clients.matchAll({ type: \"window\" }).then((clients) => {"),
     Ln(14, "for (const client of clients) {"),
     Ln(16, "if (client.url === targetUrl && \"focus\" in client) {"),
     Ln(18, "return client.focus();"),
     Ln(16, "}"),
     Ln(14, "}"),
     Ln(14, "return self.clients.openWindow(targetUrl);"),
     Ln(12, "})"),
     Ln(10, ");"),
     Ln(8, "});"),
     Sp(8) >>

\* The f-string literal of source lines 110-142, before dedent.
serwist_sw_template(push_handlers) ==
  Concat(<<
    << Ln(8, "import { defaultCache } from \"@serwist/next/worker\";"),
       Ln(8, "import type { PrecacheEntry, SerwistGlobalConfig } from \"serwist\";"),
       Ln(8, "import { Serwist } from \"serwist\";"),
       <<>>,
       Ln(8, "declare global {"),
       Ln(10, "interface WorkerGlobalScope extends SerwistGlobalConfig {"),
       Ln(12, "__SW_MANIFEST: (PrecacheEntry | string)[] | undefined;"),
       Ln(10, "}"),
       Ln(8, "}"),
       <<>>,
       Ln(8, "declare const self: ServiceWorkerGlobalScope;"),
       <<>>,
       Ln(8, "const serwist = new Serwist({"),
       Ln(10, "precacheEntries: self.__SW_MANIFEST,"),
       Ln(10, "skipWaiting: true,"),
       Ln(10, "clientsClaim: true,"),
       Ln(10, "navigationPreload: true,"),
       Ln(10, "runtimeCaching: defaultCache,"),
       Ln(10, "fallbacks: {"),
       Ln(12, "entries: ["),
       Ln(14, "{"),
       Ln(16, "url: \"/offline\","),
       Ln(16, "matcher({ request }) {"),
       Ln(18, "return request.destination === \"document\";"),
       Ln(16, "},"),
       Ln(14, "},"),
       Ln(12, "],"),
       Ln(10, "},"),
       Ln(8, "});"),
       Sp(8) >>,
    push_handlers,
    << <<>>,
       Ln(8, "serwist.addEventListeners();"),
       Sp(4) >> >>)

\* The string literal of source lines 147-160, before dedent.
serwist_config_template ==
  << Ln(8, "import withSerwist from \"@serwist/next\";"),
     Ln(8, "import type { NextConfig } from \"next\";"),
     <<>>,
     Ln(8, "const nextConfig: NextConfig = {"),
     Ln(10, "// Your existing Next.js config here"),
     Ln(8, "};"),
     <<>>,
     Ln(8, "export default withSerwist({"),
     Ln(10, "swSrc: \"app/sw.ts\","),
     Ln(10, "swDest: \"public/sw.js\","),
     Ln(10, "disable: process.env.NODE_ENV === \"development\","),
     Ln(8, "})(nextConfig);"),
     Sp(4) >>

\* The string literal of source lines 167-198, before dedent.
manual_push_handlers_template ==
  << <<>>,
     Ln(8, "// ------- Push Notifications -------"),
     Ln(8, "self.addEventListener(\"push\", (event) => {"),
     Ln(10, "const data = event.data ? event.data.json() : { title: \"Notification\" };"),
     <<>>,
     Ln(10, "event.waitUntil("),
     Ln(12, "self.registration.showNotification(data.title, {"),
     Ln(14, "body: data.body || \"\","),
     Ln(14, "icon: \"/icons/icon-192.png\","),
     Ln(14, "badge: \"/icons/icon-72.png\","),
     Ln(14, "tag: data.tag || \"default\","),
     Ln(14, "data: data.data,"),
     Ln(12, "})"),
     Ln(10, ");"),
     Ln(8, "});"),
     <<>>,
     Ln(8, "self.addEventListener(\"notificationclick\", (event) => {"),
     Ln(10, "event.notification.close();"),
     Ln(10, "const targetUrl = event.notification.data?.url || \"/\";"),
     <<>>,
     Ln(10, "event.waitUntil("),
     Ln(12, "self.clients.matchAll({ type: \"window\" }).then((clients) => {"),
     Ln(14, "for (const client of clients) {"),
     Ln(16, "if (client.url === targetUrl && \"focus\" in client) {"),
     Ln(18, "return client.focus();"),
     Ln(16, "}"),
     Ln(14, "}"),
     Ln(14, "return self.clients.openWindow(targetUrl);"),
     Ln(12, "})"),
     Ln(10, ");"),
     Ln(8, "});"),
     Sp(8) >>

\* The f-string literal of source lines 200-249, before dedent.
manual_sw_template(push_handlers) ==
  Concat(<<
    << Ln(8, "const CACHE_VERSION = \"v1\";"),
       Sp(8) \o <<"const CACHE_NAME = ", Backtick, "app-${CACHE_VERSION}", Backtick, ";">>,
       <<>>,
       Ln(8, "const PRECACHE_URLS = [\"/\", \"/offline\"];"),
       <<>>,
       Ln(8, "self.addEventListener(\"install\", (event) => {"),
       Ln(10, "event.waitUntil("),
       Ln(12, "caches.open(CACHE_NAME).then((cache) => cache.addAll(PRECACHE_URLS))"),
       Ln(10, ");"),
       Ln(10, "self.skipWaiting();"),
       Ln(8, "});"),
       <<>>,
       Ln(8, "self.addEventListener(\"activate\", (event) => {"),
       Ln(10, "event.waitUntil("),
       Ln(12, "caches.keys().then((keys) =>"),
       Ln(14, "Promise.all("),
       Ln(16, "keys.filter((key) => key !== CACHE_NAME).map((key) => caches.delete(key))"),
       Ln(14, ")"),
       Ln(12, ")"),
       Ln(10, ");"),
       Ln(10, "self.clients.claim();"),
       Ln(8, "});"),
       <<>>,
       Ln(8, "self.addEventListener(\"fetch\", (event) => {"),
       Ln(10, "const { request } = event;"),
       Ln(10, "const url = new URL(request.url);"),
       <<>>,
       Ln(10, "if (request.method !== \"GET\") return;"),
       Ln(10, "if (url.origin !== self.location.origin) return;"),
       <<>>,
       Ln(10, "if (request.mode === \"navigate\") {"),
       Ln(12, "event.respondWith("),
       Ln(14, "fetch(request)"),
       Ln(16, ".then((response) => {"),
       Ln(18, "const clone = response.clone();"),
       Ln(18, "caches.open(CACHE_NAME).then((cache) => cache.put(request, clone));"),
       Ln(18, "return response;"),
       Ln(16, "})"),
       Ln(16, ".catch(() => caches.match(\"/offline\"))"),
       Ln(12, ");"),
       Ln(12, "return;"),
       Ln(10, "}"),
       <<>>,
       Ln(10, "event.respondWith("),
       Ln(12, "caches.match(request).then((cached) => cached || fetch(request))"),
       Ln(10, ");"),
       Ln(8, "});"),
       Sp(8) >>,
    push_handlers,
    << <<>>,
       Sp(4) >> >>)

\* The string literal of source lines 254-270, before dedent.
sw_registration_template ==
  << Ln(8, "\"use client\";"),
     <<>>,
     Ln(8, "import { useEffect } from \"react\";"),
     <<>>,
     Ln(8, "export function ServiceWorkerRegistration() {"),
     Ln(10, "useEffect(() => {"),
     Ln(12, "if (\"serviceWorker\" in navigator) {"),
     Ln(14, "navigator.serviceWorker.register(\"/sw.js\").catch((err) => {"),
     Ln(16, "console.error(\"SW registration failed:\", err);"),
     Ln(14, "});"),
     Ln(12, "}"),
     Ln(10, "}, []);"),
     <<>>,
     Ln(10, "return null;"),
     Ln(8, "}"),
     Sp(4) >>

\* The string literal of source lines 278-299, before dedent.
online_hook_template ==
  << Ln(8, "\"use client\";"),
     <<>>,
     Ln(8, "import { useSyncExternalStore } from \"react\";"),
     <<>>,
     Ln(8, "function subscribe(callback: () => void) {"),
     Ln(10, "window.addEventListener(\"online\", callback);"),
     Ln(10, "window.addEventListener(\"offline\", callback);"),
     Ln(10, "return () => {"),
     Ln(12, "window.removeEventListener(\"online\", callback);"),
     Ln(12, "window.removeEventListener(\"offline\", callback);"),
     Ln(10, "};"),
     Ln(8, "}"),
     <<>>,
     Ln(8, "export function useOnlineStatus() {"),
     Ln(10, "return useSyncExternalStore("),
     Ln(12, "subscribe,"),
     Ln(12, "() => navigator.onLine,"),
     Ln(12, "() => true"),
     Ln(10, ");"),
     Ln(8, "}"),
     Sp(4) >>

-----------------------------------------------------------------------------
(* File contents: what each generate_* function hands to write_file *)

manifest_content(project_name) == dedent(manifest_template(project_name))

offline_page_content == dedent(offline_page_template)

\* variant: the flag is ignored and the handlers are never spliced in
serwist_push_handlers_never(push) == EmptyText

serwist_push_handlers(push) ==
  IF push THEN dedent(serwist_push_handlers_template) ELSE EmptyText

serwist_sw_content(push) == dedent(serwist_sw_template(serwist_push_handlers(push)))

serwist_config_content == dedent(serwist_config_template)

\* variant: the test of the flag is inverted
manual_push_handlers_inverted(push) ==
  IF ~push THEN dedent(manual_push_handlers_template) ELSE EmptyText

manual_push_handlers(push) ==
  IF push THEN dedent(manual_push_handlers_template) ELSE EmptyText

manual_sw_content(push) == dedent(manual_sw_template(manual_push_handlers(push)))

sw_registration_content == dedent(sw_registration_template)

online_hook_content == dedent(online_hook_template)

-----------------------------------------------------------------------------
(* Paths, relative to the output directory: os.path.join(base, ...) *)

manifest_path        == <<"app", "manifest.ts">>
offline_page_path    == <<"app", "offline", "page.tsx">>
\* variant: the serwist worker is written where the build puts its output
serwist_sw_path_public == <<"public", "sw.js">>
serwist_sw_path      == <<"app", "sw.ts">>
serwist_config_path  == <<"next.config.ts">>
manual_sw_path       == <<"public", "sw.js">>
sw_registration_path == <<"app", "components", "ServiceWorkerRegistration.tsx">>
online_hook_path     == <<"hooks", "useOnlineStatus.ts">>

dirname(path) == SubSeq(path, 1, Len(path) - 1)

\* os.makedirs(d, exist_ok=True): d and every missing ancestor
makedirs(ds, d) == ds \cup {SubSeq(d, 1, k) : k \in 0..Len(d)}

\* variant: open(path, "a"), which appends to a file that exists
write_file_append(d, path, content) ==
  [p \in (DOMAIN d) \cup {path} |->
     IF p # path THEN d[p]
     ELSE IF p \in DOMAIN d THEN Cat(d[p], content) ELSE content]

\* variant: the output directory is emptied before the file is written
write_file_wipe(d, path, content) == [p \in {path} |-> content]

\* open(path, "w") and f.write(content): the file holds exactly content
write_file(d, path, content) ==
  [p \in (DOMAIN d) \cup {path} |-> IF p = path THEN content ELSE d[p]]

\* open(path, "w") truncated the file and the write stopped after k lines
write_file_partial(d, path, content, k) ==
  [p \in (DOMAIN d) \cup {path} |->
     IF p = path THEN SubSeq(content, 1, k) \o EmptyText ELSE d[p]]

-----------------------------------------------------------------------------
(* Command line *)

choices == {"serwist", "manual"}

\* --approach as given on the command line; "" stands for the flag left out
ApproachArgs == choices \cup {"bogus", ""}

ProjectNames ==
  { <<"s", "h", "o", "p">>,
    <<"m", "y", "-", "a", "p", "p", "l", "i", "c", "a", "t", "i", "o", "n">> }

\* characters of the enumerated project names
NameChars == {"a", " ", "\n", "\""}

\* twelve characters, thirteen characters
Name12 == <<"p", "r", "o", "j", "e", "c", "t", "-", "n", "a", "m", "e">>
Name13 == <<"p", "r", "o", "j", "e", "c", "t", "-", "n", "a", "m", "e", "s">>

\* every project name drawn in some specification
AllNames ==
  UNION {[1..n -> NameChars] : n \in 1..MaxNameLen} \cup ProjectNames \cup {Name12, Name13}

Argv == [project_name : ProjectNames, approach : ApproachArgs,
         push : BOOLEAN, offline : BOOLEAN]

NoArgs == [project_name |-> <<>>, approach |-> "", push |-> FALSE, offline |-> FALSE]

\* the generated texts, tabulated once per input (TLC keeps a function
\* expression unevaluated; merging it with the empty function builds the table)
manifest_file   == [n \in AllNames |-> manifest_content(n)] @@ <<>>
serwist_sw_file == [push \in BOOLEAN |-> serwist_sw_content(push)] @@ <<>>
manual_sw_file  == [push \in BOOLEAN |-> manual_sw_content(push)] @@ <<>>

\* variant: add_argument without choices and without required
parse_args_accepts_any(a) == TRUE

\* argparse: --approach is required and must be one of choices
parse_args_accepts(a) == a.approach \in choices

\* variant: --offline emits the page and forgets the hook
next_pc_no_hook(here, a) ==
  LET optional == IF a.offline THEN "offline_page" ELSE "summary"
  IN  CASE here = "manifest"        -> IF a.approach = "serwist" THEN "serwist_sw" ELSE "manual_sw"
        [] here = "serwist_sw"      -> "serwist_config"
        [] here = "serwist_config"  -> optional
        [] here = "manual_sw"       -> "sw_registration"
        [] here = "sw_registration" -> optional
        [] here = "offline_page"    -> "summary"
        [] here = "online_hook"     -> "summary"

\* variant: the serwist branch writes next.config.ts before the worker
next_pc_config_first(here, a) ==
  LET optional == IF a.offline THEN "offline_page" ELSE "summary"
  IN  CASE here = "manifest"        -> IF a.approach = "serwist" THEN "serwist_config" ELSE "manual_sw"
        [] here = "serwist_config"  -> "serwist_sw"
        [] here = "serwist_sw"      -> optional
        [] here = "manual_sw"       -> "sw_registration"
        [] here = "sw_registration" -> optional
        [] here = "offline_page"    -> "online_hook"
        [] here = "online_hook"     -> "summary"

\* control flow of main() between the generate_* calls
next_pc(here, a) ==
  LET optional == IF a.offline THEN "offline_page" ELSE "summary"
  IN  CASE here = "manifest"        -> IF a.approach = "serwist" THEN "serwist_sw" ELSE "manual_sw"
        [] here = "serwist_sw"      -> "serwist_config"
        [] here = "serwist_config"  -> optional
        [] here = "manual_sw"       -> "sw_registration"
        [] here = "sw_registration" -> optional
        [] here = "offline_page"    -> "online_hook"
        [] here = "online_hook"     -> "summary"

-----------------------------------------------------------------------------
(* State machine *)

Init ==
  /\ pc = "idle"
  /\ args = NoArgs
  /\ exit_code = -1
  /\ disk = [p \in {} |-> EmptyText]
  /\ dirs \in {{}, {<<>>}}
  /\ created = <<>>
  /\ failure = <<>>
  /\ runs = 0
  /\ history = <<>>
  /\ startDisk = [p \in {} |-> EmptyText]
  /\ startDirs = dirs

\* a new process: parser.parse_args(), which exits 2 on a bad command line.
\* Behaviours are followed up to the first run that raises: no run is
\* started after exit status 1.
parse_args(a) ==
  /\ pc = "idle" \/ (pc = "exit" /\ exit_code # 1)
  /\ runs < MaxRuns
  /\ runs' = runs + 1
  /\ args' = a
  /\ created' = <<>>
  /\ failure' = <<>>
  /\ startDisk' = disk
  /\ startDirs' = dirs
  /\ IF parse_args_accepts(a)
     THEN pc' = "manifest" /\ exit_code' = -1
     ELSE pc' = "exit" /\ exit_code' = 2
  /\ UNCHANGED <<disk, dirs, history>>

\* one generate_* call: write_file(path, content) returns, or raises OSError
\* from os.makedirs, from open, or from the write (flushed when the file closes)
WriteStep(here, path, content) ==
  /\ pc = here
  /\ \/ /\ dirs' = makedirs(dirs, dirname(path))
        /\ disk' = write_file(disk, path, content)
        /\ created' = Append(created, path)
        /\ pc' = next_pc(here, args)
        /\ UNCHANGED <<exit_code, failure>>
     \/ /\ failure' = <<path, "makedirs">>
        /\ pc' = "exit" /\ exit_code' = 1
        /\ UNCHANGED <<disk, dirs, created>>
     \/ /\ failure' = <<path, "open">>
        /\ dirs' = makedirs(dirs, dirname(path))
        /\ pc' = "exit" /\ exit_code' = 1
        /\ UNCHANGED <<disk, created>>
     \/ \E k \in 0..Min(MaxCut, Len(content) - 1) :
        /\ failure' = <<path, "write">>
        /\ dirs' = makedirs(dirs, dirname(path))
        /\ disk' = write_file_partial(disk, path, content, k)
        /\ pc' = "exit" /\ exit_code' = 1
        /\ UNCHANGED created
  /\ UNCHANGED <<args, runs, history, startDisk, startDirs>>

generate_manifest ==
  WriteStep("manifest", manifest_path, manifest_file[args.project_name])

generate_serwist_sw ==
  WriteStep("serwist_sw", serwist_sw_path, serwist_sw_file[args.push])

generate_serwist_config ==
  WriteStep("serwist_config", serwist_config_path, serwist_config_content)

generate_manual_sw ==
  WriteStep("manual_sw", manual_sw_path, manual_sw_file[args.push])

generate_sw_registration ==
  WriteStep("sw_registration", sw_registration_path, sw_registration_content)

generate_offline_page ==
  WriteStep("offline_page", offline_page_path, offline_page_content)

generate_online_hook ==
  WriteStep("online_hook", online_hook_path, online_hook_content)

\* the closing prints of main(); the process exits 0
summary ==
  /\ pc = "summary"
  /\ pc' = "exit"
  /\ exit_code' = 0
  /\ history' = Append(history, args)
  /\ UNCHANGED <<args, disk, dirs, created, failure, runs, startDisk, startDirs>>

Next ==
  \/ \E a \in Argv : parse_args(a)
  \/ generate_manifest
  \/ generate_serwist_sw
  \/ generate_serwist_config
  \/ generate_manual_sw
  \/ generate_sw_registration
  \/ generate_offline_page
  \/ generate_online_hook
  \/ summary

Spec == Init /\ [][Next]_vars

-----------------------------------------------------------------------------
(* The manifest alone, over an enumeration of project names *)

InitManifest ==
  /\ pc = "manifest"
  /\ args \in [project_name : AllNames, approach : choices, push : {FALSE}, offline : {FALSE}]
  /\ exit_code = -1
  /\ disk = [p \in {} |-> EmptyText]
  /\ dirs = {<<>>}
  /\ created = <<>>
  /\ failure = <<>>
  /\ runs = 1
  /\ history = <<>>
  /\ startDisk = disk
  /\ startDirs = dirs

SpecManifest == InitManifest /\ [][generate_manifest]_vars

-----------------------------------------------------------------------------
(* Vocabulary of the properties *)

Range(s) == {s[i] : i \in 1..Len(s)}

IsPrefix(s, t) == Len(s) <= Len(t) /\ SubSeq(t, 1, Len(s)) = s

Succeeded == pc = "exit" /\ exit_code = 0

\* the documented write sequence of a request
WriteOrder(a) ==
  <<  <<"app", "manifest.ts">>  >>
  \o (IF a.approach = "serwist"
      THEN << <<"app", "sw.ts">>, <<"next.config.ts">> >>
      ELSE << <<"public", "sw.js">>, <<"app", "components", "ServiceWorkerRegistration.tsx">> >>)
  \o (IF a.offline
      THEN << <<"app", "offline", "page.tsx">>, <<"hooks", "useOnlineStatus.ts">> >>
      ELSE << >>)

\* the documented file set of a request
FileSet(a) == Range(WriteOrder(a))

\* the worker script of an approach
WorkerPath(a) == IF a.approach = "serwist" THEN <<"app", "sw.ts">> ELSE <<"public", "sw.js">>

\* what a request emits at a path of its file set
Emitted(a, p) ==
  CASE p = <<"app", "manifest.ts">>   -> manifest_file[a.project_name]
    [] p = <<"app", "sw.ts">>         -> serwist_sw_file[a.push]
    [] p = <<"next.config.ts">>       -> serwist_config_content
    [] p = <<"public", "sw.js">>      -> manual_sw_file[a.push]
    [] p = <<"app", "components", "ServiceWorkerRegistration.tsx">> -> sw_registration_content
    [] p = <<"app", "offline", "page.tsx">>   -> offline_page_content
    [] p = <<"hooks", "useOnlineStatus.ts">>  -> online_hook_content

\* line i of T is txt, whatever its indentation
LineIs(T, i, txt) ==
  /\ Len(T[i]) >= 1
  /\ T[i][Len(T[i])] = txt
  /\ \A j \in 1..(Len(T[i]) - 1) : T[i][j] \in Whitespace

\* T holds a listener block for event: its opening line, a line of its body,
\* and a closing line, in this order
HasBlock(T, opening, body) ==
  \E i \in 1..Len(T) :
    /\ LineIs(T, i, opening)
    /\ \E j \in (i+1)..Len(T) :
         /\ LineIs(T, j, body)
         /\ \E k \in (j+1)..Len(T) : LineIs(T, k, "});")

\* some line of T mentions txt
Mentions(T, txt) == \E i \in 1..Len(T) : \E j \in 1..Len(T[i]) : T[i][j] = txt

PushOpening  == "self.addEventListener(\"push\", (event) => {"
PushBody     == "self.registration.showNotification(data.title, {"
ClickOpening == "self.addEventListener(\"notificationclick\", (event) => {"
ClickBody    == "return self.clients.openWindow(targetUrl);"

HasBothBlocks(T) ==
  HasBlock(T, PushOpening, PushBody) /\ HasBlock(T, ClickOpening, ClickBody)

HasNoBlock(T) == ~Mentions(T, PushOpening) /\ ~Mentions(T, ClickOpening)

-----------------------------------------------------------------------------
(* Properties *)

\* C1: a run that exits 0 after a successful run of the identical request
\* leaves the output directory exactly as that earlier run left it: the same
\* paths, and at each path the same content.
C1_Determinism ==
  (Succeeded /\ Len(history) >= 2 /\ history[Len(history) - 1] = args)
    => disk = startDisk

C1_Witness ==
  /\ Succeeded
  /\ Len(history) = 2
  /\ history[1] = history[2]
  /\ args.push /\ args.offline

\* C2: once the manifest is written, the characters between `name: "` and
\* the closing `",` are exactly project_name, and those after `short_name: "`
\* are exactly its first 12 characters.
C2_ManifestNames ==
  (<<"app", "manifest.ts">> \in Range(created)) =>
    LET t  == Flat(disk[<<"app", "manifest.ts">>])
        n  == args.project_name
        s  == SubSeq(n, 1, Min(12, Len(n)))
        i  == CHOOSE x \in 1..Len(t) : t[x] = "name: \""
        j  == CHOOSE x \in 1..Len(t) : t[x] = "short_name: \""
    IN  /\ SubSeq(t, i + 1, i + Len(n)) = n
        /\ t[i + Len(n) + 1] = "\","
        /\ SubSeq(t, j + 1, j + Len(s)) = s
        /\ t[j + Len(s) + 1] = "\","

\* C3: the paths a run writes are the documented ones, each once; a serwist
\* run never writes public/sw.js, a manual run never writes next.config.ts
\* or app/sw.ts, and a manual run without flags writes exactly three files.
C3_FileSet ==
  /\ \A i, j \in 1..Len(created) : created[i] = created[j] => i = j
  /\ args.approach = "serwist" => <<"public", "sw.js">> \notin Range(created)
  /\ args.approach = "manual" =>
       /\ <<"next.config.ts">> \notin Range(created)
       /\ <<"app", "sw.ts">> \notin Range(created)
  /\ Succeeded =>
       /\ Range(created) =
            {<<"app", "manifest.ts">>}
            \cup (IF args.approach = "serwist"
                  THEN {<<"app", "sw.ts">>, <<"next.config.ts">>} ELSE {})
            \cup (IF args.approach = "manual"
                  THEN {<<"public", "sw.js">>,
                        <<"app", "components", "ServiceWorkerRegistration.tsx">>} ELSE {})
            \cup (IF args.offline
                  THEN {<<"app", "offline", "page.tsx">>, <<"hooks", "useOnlineStatus.ts">>}
                  ELSE {})
       /\ (args.approach = "manual" /\ ~args.push /\ ~args.offline) => Len(created) = 3

C3_Witness ==
  /\ Succeeded
  /\ args.approach = "serwist" /\ args.offline
  /\ Len(created) = 5
  /\ <<"public", "sw.js">> \in DOMAIN startDisk

\* C4: the worker script a run has written holds both listener blocks when
\* push is set and neither when it is not, for both approaches.
C4_PushBlocks ==
  (WorkerPath(args) \in Range(created)) =>
    IF args.push THEN HasBothBlocks(disk[WorkerPath(args)])
                 ELSE HasNoBlock(disk[WorkerPath(args)])

C4_Witness ==
  /\ Succeeded
  /\ args.approach = "manual" /\ args.push /\ ~args.offline
  /\ Len(history) = 2
  /\ history[1].approach = "manual" /\ ~history[1].push /\ history[1].offline

\* C5: a run with offline set, following a run of the same request without
\* it, writes that run's files with unchanged content plus exactly the
\* offline page and the online-status hook.
C5_OfflineFrame ==
  (Succeeded /\ args.offline /\ Len(history) >= 2
     /\ history[Len(history) - 1] = [args EXCEPT !.offline = FALSE])
    => LET extra == {<<"app", "offline", "page.tsx">>, <<"hooks", "useOnlineStatus.ts">>}
           prev  == history[Len(history) - 1]
       IN  /\ Range(created) \ FileSet(prev) = extra
           /\ FileSet(prev) \subseteq Range(created)
           /\ Len(created) = Len(WriteOrder(prev)) + 2
           /\ \A p \in FileSet(prev) :
                p \in DOMAIN startDisk /\ disk[p] = startDisk[p]
           /\ extra \subseteq DOMAIN disk

C5_Witness ==
  /\ Succeeded /\ args.offline /\ args.push /\ args.approach = "manual"
  /\ Len(history) = 2
  /\ history[1] = [args EXCEPT !.offline = FALSE]

\* C6: a command line whose --approach is missing or is not serwist or
\* manual ends the run with exit status 2, no write_file call and the
\* output directory untouched.
C6_BadApproach ==
  (pc # "idle" /\ args.approach \notin {"serwist", "manual"}) =>
    /\ pc = "exit"
    /\ exit_code = 2
    /\ created = <<>>
    /\ failure = <<>>
    /\ disk = startDisk
    /\ dirs = startDirs

C6_Witness ==
  /\ pc = "exit" /\ exit_code = 2
  /\ args.approach = "bogus" /\ args.push /\ args.offline
  /\ DOMAIN disk # {}

\* C7: ("my-application", serwist, push, offline) writes five files, app/sw.ts
\* holds both listener blocks, and the offline page and the hook are written.
C7_ScenarioFive ==
  (Succeeded /\ args = [project_name |-> <<"m", "y", "-", "a", "p", "p", "l", "i", "c", "a", "t", "i", "o", "n">>,
                         approach |-> "serwist", push |-> TRUE, offline |-> TRUE])
    => /\ Len(created) = 5
       /\ Cardinality(Range(created)) = 5
       /\ Range(created) \subseteq DOMAIN disk
       /\ <<"app", "sw.ts">> \in Range(created)
       /\ HasBothBlocks(disk[<<"app", "sw.ts">>])
       /\ <<"app", "offline", "page.tsx">> \in Range(created)
       /\ <<"hooks", "useOnlineStatus.ts">> \in Range(created)

\* C7 as first stated: the same run writes six files.
C7_ScenarioSix ==
  (Succeeded /\ args = [project_name |-> <<"m", "y", "-", "a", "p", "p", "l", "i", "c", "a", "t", "i", "o", "n">>,
                         approach |-> "serwist", push |-> TRUE, offline |-> TRUE])
    => /\ Len(created) = 6
       /\ <<"app", "sw.ts">> \in Range(created)
       /\ HasBothBlocks(disk[<<"app", "sw.ts">>])
       /\ <<"app", "offline", "page.tsx">> \in Range(created)
       /\ <<"hooks", "useOnlineStatus.ts">> \in Range(created)

C7_Witness ==
  /\ Succeeded
  /\ Len(args.project_name) = 14
  /\ args.approach = "serwist" /\ args.push /\ args.offline
  /\ runs = 1

\* T is B with one block of lines inserted at one point
IsSplice(T, B) ==
  /\ Len(T) >= Len(B)
  /\ \E k \in 0..Len(B) :
       /\ SubSeq(T, 1, k) = SubSeq(B, 1, k)
       /\ SubSeq(T, Len(T) - (Len(B) - k) + 1, Len(T)) = SubSeq(B, k + 1, Len(B))

\* C8: the worker script written with push set is the script the same
\* approach emits without push, with one block of lines inserted: every line
\* of the latter is kept, in order, with its text and its indentation.
C8_Splice ==
  (WorkerPath(args) \in Range(created) /\ args.push) =>
    IsSplice(disk[WorkerPath(args)],
             Emitted([args EXCEPT !.push = FALSE], WorkerPath(args)))

\* C9: the files are written in the documented order; a write that fails
\* ends the run with a failure, the files written before it are on disk in
\* full, and no path after the failing one is touched.
C9_WriteSequence ==
  /\ (pc # "idle" /\ args.approach \in {"serwist", "manual"}) =>
       IsPrefix(created, WriteOrder(args))
  /\ Succeeded => created = WriteOrder(args)
  /\ exit_code = 1 =>
       LET order == WriteOrder(args)
           n     == Len(created)
       IN  /\ pc = "exit"
           /\ n < Len(order)
           /\ failure # <<>>
           /\ failure[1] = order[n + 1]
           /\ \A i \in 1..n :
                order[i] \in DOMAIN disk /\ disk[order[i]] = Emitted(args, order[i])
           /\ DOMAIN startDisk \subseteq DOMAIN disk
           /\ \A p \in DOMAIN disk :
                \/ \E i \in 1..(n + 1) : order[i] = p
                \/ p \in DOMAIN startDisk /\ disk[p] = startDisk[p]

C9_Witness ==
  /\ exit_code = 1
  /\ Len(created) = 3
  /\ failure = << <<"app", "offline", "page.tsx">>, "write" >>
  /\ <<"app", "offline", "page.tsx">> \in DOMAIN disk
  /\ runs = 2

\* C10: after any sequence of successful runs the files on disk are the
\* union of the runs' file sets, each with the content of the last run whose
\* file set holds its path.
C10_Overwrite ==
  (pc = "exit" /\ exit_code # 1) =>
    /\ DOMAIN disk = UNION {FileSet(history[i]) : i \in 1..Len(history)}
    /\ \A p \in DOMAIN disk :
         LET last == CHOOSE i \in 1..Len(history) :
                       /\ p \in FileSet(history[i])
                       /\ \A j \in (i + 1)..Len(history) : p \notin FileSet(history[j])
         IN  disk[p] = Emitted(history[last], p)

C10_Witness ==
  /\ Succeeded
  /\ Len(history) = 2
  /\ history[1].approach = "serwist" /\ history[1].push
  /\ history[2].approach = "manual" /\ ~history[2].push
  /\ history[1].project_name # history[2].project_name
  /\ {<<"app", "sw.ts">>, <<"next.config.ts">>, <<"public", "sw.js">>} \subseteq DOMAIN disk

====
